---- MODULE Spec2Model ----
(***************************************************************************)
(* Model of hyperion/metrics/dcf.py: detection cost functions computed      *)
(* from target / non-target score populations.                              *)
(*                                                                          *)
(* The four functions of the module are pure, so each is an operator that   *)
(* computes what the Python code computes, and returns an outcome: either   *)
(* the returned value or the exception that leaves the function, with the   *)
(* line that raised it and the locals bound at that moment.  A behaviour    *)
(* draws one call (function and arguments) in Init and performs it.         *)
(*                                                                          *)
(* float64 values are modelled as exact rationals extended with the IEEE    *)
(* specials inf, -inf and nan; rounding is not modelled.                    *)
(***************************************************************************)
EXTENDS Integers, Sequences, FiniteSets, TLC

VARIABLES fn, tar, non, prior, normalize, p_miss, p_fa, pc, out

vars == <<fn, tar, non, prior, normalize, p_miss, p_fa, pc, out>>

(***************************************************************************)
(* Bounds of the explored inputs.                                           *)
(***************************************************************************)
MaxScores == 2      \* longest target / non-target score vector drawn
MaxPriors == 2      \* longest prior sequence drawn
MaxVerts  == 2      \* longest p_miss / p_fa vector handed to compute_dcf

(***************************************************************************)
(* float64 arithmetic, as numpy applies it elementwise.                     *)
(***************************************************************************)
Abs(x) == IF x < 0 THEN -x ELSE x

RECURSIVE GCD(_, _)
GCD(a, b) == IF b = 0 THEN a ELSE GCD(b, a % b)

\* a finite value n/d in lowest terms with d > 0, so that equal values are
\* equal records
Rat(n, d) ==
    LET g == GCD(Abs(n), Abs(d))
        s == IF d < 0 THEN -1 ELSE 1
    IN  [k |-> "fin", n |-> (s * n) \div g, d |-> (s * d) \div g]

NaN  == [k |-> "nan", n |-> 0, d |-> 1]
PInf == [k |-> "inf", n |-> 1, d |-> 1]
NInf == [k |-> "inf", n |-> -1, d |-> 1]
Zero == Rat(0, 1)
One  == Rat(1, 1)

Sgn(x) == IF x.n > 0 THEN 1 ELSE IF x.n < 0 THEN -1 ELSE 0

IsNaN(x) == x.k = "nan"
IsFin(x) == x.k = "fin"

Inf(s) == IF s < 0 THEN NInf ELSE PInf

Neg(a) == IF IsNaN(a) THEN NaN ELSE [a EXCEPT !.n = -a.n]

Add(a, b) ==
    IF IsNaN(a) \/ IsNaN(b) THEN NaN
    ELSE IF ~IsFin(a) THEN (IF ~IsFin(b) /\ b.n # a.n THEN NaN ELSE a)
    ELSE IF ~IsFin(b) THEN b
    ELSE Rat(a.n * b.d + b.n * a.d, a.d * b.d)

Sub(a, b) == Add(a, Neg(b))

Mul(a, b) ==
    IF IsNaN(a) \/ IsNaN(b) THEN NaN
    ELSE IF ~IsFin(a) \/ ~IsFin(b)
         THEN (IF Sgn(a) = 0 \/ Sgn(b) = 0 THEN NaN ELSE Inf(Sgn(a) * Sgn(b)))
    ELSE Rat(a.n * b.n, a.d * b.d)

\* numpy true division: a division by zero is a RuntimeWarning, not an
\* exception, and yields inf or nan.  The zero divisors of this module are
\* min(prior, 1 - prior) with prior 0.0 or 1.0, which is +0.0.
Div(a, b) ==
    IF IsNaN(a) \/ IsNaN(b) THEN NaN
    ELSE IF ~IsFin(b) THEN (IF ~IsFin(a) THEN NaN ELSE Zero)
    ELSE IF b.n = 0 THEN (IF Sgn(a) = 0 THEN NaN ELSE Inf(Sgn(a)))
    ELSE IF ~IsFin(a) THEN Inf(Sgn(a) * Sgn(b))
    ELSE Rat(a.n * b.d, a.d * b.n)

\* IEEE a < b: false when either side is nan
Less(a, b) ==
    IF IsNaN(a) \/ IsNaN(b) THEN FALSE
    ELSE IF ~IsFin(a) THEN a.n < 0 /\ ~(~IsFin(b) /\ b.n < 0)
    ELSE IF ~IsFin(b) THEN b.n > 0
    ELSE a.n * b.d < b.n * a.d

\* np.minimum: propagates nan
Minimum(a, b) ==
    IF IsNaN(a) \/ IsNaN(b) THEN NaN
    ELSE IF Less(b, a) THEN b ELSE a

\* np.min over a non-empty vector
RECURSIVE MinUpTo(_, _)
MinUpTo(row, j) ==
    IF j = 1 THEN row[1] ELSE Minimum(MinUpTo(row, j - 1), row[j])

np_min(row) == MinUpTo(row, Len(row))

\* np.log on the priors explored, in thousandths; log(0) = -inf and the log
\* of a negative number is nan (both RuntimeWarnings, not exceptions)
np_log(x) ==
    IF IsNaN(x) THEN NaN
    ELSE IF Sgn(x) < 0 THEN NaN
    ELSE IF ~IsFin(x) THEN PInf
    ELSE IF x.n = 0 THEN NInf
    ELSE IF x = Rat(1, 10) THEN Rat(-2303, 1000)
    ELSE IF x = Rat(1, 2)  THEN Rat(-693, 1000)
    ELSE IF x = Rat(9, 10) THEN Rat(-105, 1000)
    ELSE IF x = Rat(3, 2)  THEN Rat(405, 1000)
    ELSE Zero   \* x = 1

(***************************************************************************)
(* Outcome of a call.                                                       *)
(***************************************************************************)
NoLocals ==
    [p_miss |-> <<>>, p_fa |-> <<>>, eer |-> <<>>, prbep |-> <<>>,
     n_miss |-> <<>>, n_fa |-> <<>>]

Return(v, loc) ==
    [status |-> "return", err |-> "", line |-> 0, val |-> v, loc |-> loc]

Raise(e, l, loc) ==
    [status |-> "raise", err |-> e, line |-> l, val |-> <<>>, loc |-> loc]

NoOutcome ==
    [status |-> "none", err |-> "", line |-> 0, val |-> <<>>, loc |-> NoLocals]

(***************************************************************************)
(* compute_dcf(p_miss, p_fa, prior, normalize)                              *)
(* The prior argument is [scalar |-> BOOLEAN, v |-> values]: a Python       *)
(* float (v has one element) or a list of floats.                           *)
(***************************************************************************)
\* numpy broadcasting of two 1-d operands of lengths a and b
Broadcastable(a, b) == a = b \/ a = 1 \/ b = 1
BroadcastLen(a, b) == IF a = 1 THEN b ELSE a
At(s, j) == IF Len(s) = 1 THEN s[1] ELSE s[j]

\* line 28
DcfEntry(pr, pm, pf) == Add(Mul(pr, pm), Mul(Sub(One, pr), pf))

\* line 30
Normalizer(pr) == Minimum(pr, Sub(One, pr))

\* compute_dcf normalizing by the larger of prior and 1 - prior
compute_dcf_maxnorm(pm, pf, pr, nz) ==
    IF pr.scalar
    THEN Raise("IndexError", 27, NoLocals)
    ELSE IF ~Broadcastable(Len(pm), Len(pf))
    THEN Raise("ValueError", 28, NoLocals)
    ELSE LET cols == BroadcastLen(Len(pm), Len(pf))
             big(p) == IF Less(p, Sub(One, p)) THEN Sub(One, p) ELSE p
         IN  Return([i \in 1..Len(pr.v) |->
                       [j \in 1..cols |->
                           IF nz
                           THEN Div(DcfEntry(pr.v[i], At(pm, j), At(pf, j)), big(pr.v[i]))
                           ELSE DcfEntry(pr.v[i], At(pm, j), At(pf, j))]],
                    NoLocals)

\* compute_dcf rejecting a prior outside (0,1) before computing
compute_dcf_range_checked(pm, pf, pr, nz) ==
    IF pr.scalar
    THEN Raise("IndexError", 27, NoLocals)
    ELSE IF \E i \in 1..Len(pr.v) : ~(Less(Zero, pr.v[i]) /\ Less(pr.v[i], One))
    THEN Raise("ValueError", 27, NoLocals)
    ELSE IF ~Broadcastable(Len(pm), Len(pf))
    THEN Raise("ValueError", 28, NoLocals)
    ELSE LET cols == BroadcastLen(Len(pm), Len(pf))
         IN  Return([i \in 1..Len(pr.v) |->
                       [j \in 1..cols |->
                           IF nz
                           THEN Div(DcfEntry(pr.v[i], At(pm, j), At(pf, j)), Normalizer(pr.v[i]))
                           ELSE DcfEntry(pr.v[i], At(pm, j), At(pf, j))]],
                    NoLocals)

compute_dcf(pm, pf, pr, nz) ==
    IF pr.scalar
    THEN \* line 27: a 0-d array cannot be indexed with [:,None]
         Raise("IndexError", 27, NoLocals)
    ELSE IF ~Broadcastable(Len(pm), Len(pf))
    THEN Raise("ValueError", 28, NoLocals)
    ELSE LET cols == BroadcastLen(Len(pm), Len(pf))
             dcf  == [i \in 1..Len(pr.v) |->
                        [j \in 1..cols |->
                            DcfEntry(pr.v[i], At(pm, j), At(pf, j))]]
         IN  IF nz
             THEN Return([i \in 1..Len(pr.v) |->
                            [j \in 1..cols |->
                                Div(dcf[i][j], Normalizer(pr.v[i]))]],
                         NoLocals)
             ELSE Return(dcf, NoLocals)

(***************************************************************************)
(* compute_rocch(tar, non) and rocch2eer(p_miss, p_fa): called by this      *)
(* module, defined elsewhere in the package.  ROC convex hull: the          *)
(* empirical ROC points, one per distinct score value plus the accept-all   *)
(* point, in order of rising threshold, reduced to their lower convex hull  *)
(* by a monotone stack.  With an empty population the corresponding rate is *)
(* 0 by convention.                                                         *)
(***************************************************************************)
ScoreValues(ta, no) == {ta[i] : i \in DOMAIN ta} \cup {no[i] : i \in DOMAIN no}

RECURSIVE Ascending(_)
Ascending(S) ==
    IF S = {} THEN <<>>
    ELSE LET m == CHOOSE x \in S : \A y \in S : x <= y
         IN  <<m>> \o Ascending(S \ {m})

Rate(cnt, total) == IF total = 0 THEN Zero ELSE Rat(cnt, total)

\* operating point of a threshold just above score value v: a target is
\* missed when its score is below the threshold
RocPoint(ta, no, v) ==
    [p_miss |-> Rate(Cardinality({i \in DOMAIN ta : ta[i] <= v}), Len(ta)),
     p_fa   |-> Rate(Cardinality({i \in DOMAIN no : no[i] > v}), Len(no))]

RocPoints(ta, no) ==
    LET vs == Ascending(ScoreValues(ta, no))
    IN  <<[p_miss |-> Zero, p_fa |-> Rate(Len(no), Len(no))]>>
        \o [k \in 1..Len(vs) |-> RocPoint(ta, no, vs[k])]

\* (b - a) x (c - a) in the (p_miss, p_fa) plane
Cross(a, b, c) ==
    Sub(Mul(Sub(b.p_miss, a.p_miss), Sub(c.p_fa, a.p_fa)),
        Mul(Sub(b.p_fa, a.p_fa), Sub(c.p_miss, a.p_miss)))

\* b is strictly below the chord from a to c
StrictlyBelow(a, b, c) == Less(Zero, Cross(a, b, c))

RECURSIVE HullPush(_, _)
HullPush(st, c) ==
    IF Len(st) >= 2 /\ ~StrictlyBelow(st[Len(st) - 1], st[Len(st)], c)
    THEN HullPush(SubSeq(st, 1, Len(st) - 1), c)
    ELSE Append(st, c)

RECURSIVE HullUpTo(_, _)
HullUpTo(pts, k) ==
    IF k = 0 THEN <<>> ELSE HullPush(HullUpTo(pts, k - 1), pts[k])

compute_rocch(ta, no) ==
    LET pts  == RocPoints(ta, no)
        hull == HullUpTo(pts, Len(pts))
    IN  [p_miss |-> [i \in 1..Len(hull) |-> hull[i].p_miss],
         p_fa   |-> [i \in 1..Len(hull) |-> hull[i].p_fa]]

\* the value where p_miss == p_fa on the hull: a vertex if one has both
\* equal, else the crossing interpolated on the bracketing segment
rocch2eer(pm, pf) ==
    IF \E i \in 1..Len(pm) : pm[i] = pf[i]
    THEN pm[CHOOSE i \in 1..Len(pm) : pm[i] = pf[i]]
    ELSE LET i  == CHOOSE i \in 1..(Len(pm) - 1) :
                       Less(pm[i], pf[i]) /\ Less(pf[i + 1], pm[i + 1])
             dx == Sub(pm[i + 1], pm[i])
             dy == Sub(pf[i + 1], pf[i])
             s  == Div(Sub(pf[i], pm[i]), Sub(dx, dy))
         IN  Add(pm[i], Mul(s, dx))

(***************************************************************************)
(* compute_min_dcf(tar, non, prior, normalize)                              *)
(***************************************************************************)
\* compute_min_dcf unpacking the hull in the wrong order at line 50
compute_min_dcf_swapped(ta, no, pr, nz) ==
    LET h   == compute_rocch(ta, no)
        loc == [NoLocals EXCEPT !.p_miss = h.p_fa, !.p_fa = h.p_miss]
        dcf == compute_dcf(loc.p_miss, loc.p_fa, pr, nz)
    IN  IF dcf.status = "raise"
        THEN Raise(dcf.err, dcf.line, loc)
        ELSE Return([i \in 1..Len(dcf.val) |-> np_min(dcf.val[i])], loc)

compute_min_dcf(ta, no, pr, nz) ==
    LET h   == compute_rocch(ta, no)                       \* line 50
        loc == [NoLocals EXCEPT !.p_miss = h.p_miss, !.p_fa = h.p_fa]
        dcf == compute_dcf(loc.p_miss, loc.p_fa, pr, nz)   \* line 51
    IN  IF dcf.status = "raise"
        THEN Raise(dcf.err, dcf.line, loc)
        ELSE Return([i \in 1..Len(dcf.val) |-> np_min(dcf.val[i])], loc)

(***************************************************************************)
(* compute_act_dcf(tar, non, prior, normalize)                              *)
(* What the interpreter and numpy leave open is passed in: build is the     *)
(* numpy release's truth value of an empty array, ii_tar and ii_non are the *)
(* index orders np.argsort returns at lines 83 and 91.                      *)
(***************************************************************************)
\* bool() of an empty array: False (with a DeprecationWarning) in the numpy
\* releases of the code's time, a ValueError in later ones
NumpyBuilds == {"empty_is_false", "empty_raises"}

\* line 73: assert prior == np.sort(prior), '...'.  "" when the assert passes.
\* The comparison yields a boolean array and assert takes its truth value.
AscendingCheck(pr, build) ==
    IF pr.scalar THEN "AxisError"            \* np.sort of a 0-d array
    ELSE IF Len(pr.v) >= 2 THEN "ValueError" \* truth value is ambiguous
    ELSE IF Len(pr.v) = 1 THEN ""            \* bool(array([True]))
    ELSE IF build = "empty_is_false" THEN "AssertionError"
    ELSE "ValueError"

\* line 80
Threshold(p) == Add(Neg(np_log(p)), np_log(Sub(One, p)))

AsFloat(s) == Rat(s, 1)

\* np.concatenate((t, scores)) at lines 82 and 90
Concat(pr, scores) ==
    [i \in 1..Len(pr.v) |-> Threshold(pr.v[i])] \o [i \in 1..Len(scores) |-> AsFloat(scores[i])]

\* the order numpy sorts by: nan last
SortLE(a, b) == IsNaN(b) \/ (~IsNaN(a) /\ ~Less(b, a))

Perms(n) == {f \in [1..n -> 1..n] : \A i, j \in 1..n : i # j => f[i] # f[j]}

\* np.argsort(x) with the default kind, which is not stable: every index
\* order that sorts x, equal elements in any order
argsort(x) ==
    {ii \in Perms(Len(x)) : \A k \in 1..(Len(x) - 1) : SortLE(x[ii[k]], x[ii[k + 1]])}

\* lines 84-86 and 92-94: r[ii] = 1..n, truncated to the thresholds
Ranks(ii, num_priors) ==
    [m \in 1..num_priors |-> CHOOSE k \in 1..Len(ii) : ii[k] = m]

\* np.arange(num_priors, 0, -1), indexed from 1
Countdown(num_priors, i) == num_priors - i + 1

compute_act_dcf(ta, no, pr, nz, build, ii_tar, ii_non) ==
    IF AscendingCheck(pr, build) # ""
    THEN Raise(AscendingCheck(pr, build), 73, NoLocals)
    ELSE LET num_priors == Len(pr.v)
             nnon   == Len(no)
             rt     == Ranks(ii_tar, num_priors)
             n_miss == [i \in 1..num_priors |->
                          rt[i] - Countdown(num_priors, i)]          \* line 87
             rn     == Ranks(ii_non, num_priors)
             n_fa   == [i \in 1..num_priors |->
                          nnon - rn[i] + Countdown(num_priors, i)]   \* line 95
         IN  \* line 97: np.zeros((prior,), ...) has a float array where the
             \* shape wants an integer; the lines after it are not reached
             Raise("TypeError", 97,
                   [NoLocals EXCEPT !.n_miss = n_miss, !.n_fa = n_fa])

(***************************************************************************)
(* fast_eval_dcf_eer(tar, non, prior, normalize_dcf)                        *)
(***************************************************************************)
Scaled(v, n) == [i \in 1..Len(v) |-> Mul(v[i], AsFloat(n))]

\* fast_eval_dcf_eer taking the EER from the count curves
fast_eval_dcf_eer_counts(ta, no, pr, nz) ==
    LET h      == compute_rocch(ta, no)
        N_miss == Scaled(h.p_miss, Len(ta))
        N_fa   == Scaled(h.p_fa, Len(no))
        eer    == rocch2eer(N_miss, N_fa)
        prbep  == rocch2eer(N_miss, N_fa)
    IN  Raise("NameError", 140,
              [NoLocals EXCEPT !.p_miss = h.p_miss, !.p_fa = h.p_fa,
                               !.eer = <<eer>>, !.prbep = <<prbep>>])

fast_eval_dcf_eer(ta, no, pr, nz) ==
    LET h      == compute_rocch(ta, no)                    \* line 133
        eer    == rocch2eer(h.p_miss, h.p_fa)              \* line 134
        N_miss == Scaled(h.p_miss, Len(ta))                \* line 136
        N_fa   == Scaled(h.p_fa, Len(no))                  \* line 137
        prbep  == rocch2eer(N_miss, N_fa)                  \* line 138
    IN  \* line 140 reads the name normalize, bound neither in the function
        \* (its parameter is normalize_dcf) nor in the module; the lines
        \* after it are not reached
        Raise("NameError", 140,
              [NoLocals EXCEPT !.p_miss = h.p_miss, !.p_fa = h.p_fa,
                               !.eer = <<eer>>, !.prbep = <<prbep>>])

(***************************************************************************)
(* Inputs.                                                                  *)
(***************************************************************************)
RECURSIVE SeqsUpTo(_, _)
SeqsUpTo(S, n) ==
    IF n = 0 THEN {<<>>}
    ELSE LET shorter == SeqsUpTo(S, n - 1)
         IN  shorter \cup {Append(s, x) : s \in {q \in shorter : Len(q) = n - 1}, x \in S}

Fns == {"compute_dcf", "compute_min_dcf", "compute_act_dcf", "fast_eval_dcf_eer"}

\* scores are log-likelihood ratios: 0 is the Bayes threshold of prior 0.5,
\* and 0 and 3 lie on either side of that of prior 0.1
Scores == {0, 3}

\* priors inside (0,1), on its border and outside it
Priors == {Rat(0, 1), Rat(1, 10), Rat(1, 2), Rat(3, 2)}

Probs == {Rat(0, 1), Rat(1, 2), Rat(1, 1)}

ScorePairs ==
    (SeqsUpTo(Scores, MaxScores) \X SeqsUpTo(Scores, MaxScores))
    \cup {<< <<1, 2, 3, 4, 5>>, <<0, 1, 2, 3, 4>> >>}

PriorArgs ==
    {[scalar |-> TRUE, v |-> <<x>>] : x \in Priors}
    \cup {[scalar |-> FALSE, v |-> s] : s \in SeqsUpTo(Priors, MaxPriors)}

Init ==
    /\ pc = "start"
    /\ out = NoOutcome
    /\ fn \in Fns
    /\ prior \in PriorArgs
    /\ normalize \in BOOLEAN
    /\ IF fn = "compute_dcf"
       THEN /\ p_miss \in SeqsUpTo(Probs, MaxVerts)
            /\ p_fa \in SeqsUpTo(Probs, MaxVerts)
            /\ tar = <<>>
            /\ non = <<>>
       ELSE /\ \E pair \in ScorePairs : tar = pair[1] /\ non = pair[2]
            /\ p_miss = <<>>
            /\ p_fa = <<>>

Finish(o) ==
    /\ pc' = "done"
    /\ out' = o
    /\ UNCHANGED <<fn, tar, non, prior, normalize, p_miss, p_fa>>

Call_compute_dcf ==
    /\ pc = "start"
    /\ fn = "compute_dcf"
    /\ Finish(compute_dcf(p_miss, p_fa, prior, normalize))

Call_compute_min_dcf ==
    /\ pc = "start"
    /\ fn = "compute_min_dcf"
    /\ Finish(compute_min_dcf(tar, non, prior, normalize))

\* the index orders argsort may return; a single dummy when line 73 raises
ArgsortChoices(pr, scores, build) ==
    IF AscendingCheck(pr, build) # "" THEN {<<>>} ELSE argsort(Concat(pr, scores))

Call_compute_act_dcf ==
    /\ pc = "start"
    /\ fn = "compute_act_dcf"
    /\ \E build \in NumpyBuilds :
        \E ii_tar \in ArgsortChoices(prior, tar, build) :
        \E ii_non \in ArgsortChoices(prior, non, build) :
           Finish(compute_act_dcf(tar, non, prior, normalize, build, ii_tar, ii_non))

Call_fast_eval_dcf_eer ==
    /\ pc = "start"
    /\ fn = "fast_eval_dcf_eer"
    /\ Finish(fast_eval_dcf_eer(tar, non, prior, normalize))

Next ==
    \/ Call_compute_dcf
    \/ Call_compute_min_dcf
    \/ Call_compute_act_dcf
    \/ Call_fast_eval_dcf_eer

Spec == Init /\ [][Next]_vars

(***************************************************************************)
(* Properties.                                                              *)
(***************************************************************************)
Done(f) == pc = "done" /\ fn = f

InRange(p) == Less(Zero, p) /\ Less(p, One)

NonDecreasing(v) == \A i \in 1..(Len(v) - 1) : ~Less(v[i + 1], v[i])

\* a prior argument the contract allows: a non-empty ascending sequence of
\* priors in (0,1)
ValidPriors ==
    /\ ~prior.scalar
    /\ Len(prior.v) >= 1
    /\ \A i \in 1..Len(prior.v) : InRange(prior.v[i])
    /\ NonDecreasing(prior.v)

\* prior*p_miss + (1-prior)*p_fa for finite operands, over one denominator
WeightedCost(p, m, f) ==
    Rat(p.n * m.n * f.d + (p.d - p.n) * f.n * m.d, p.d * m.d * f.d)

\* min(prior, 1 - prior) for a finite prior
SmallerSide(p) == IF 2 * p.n <= p.d THEN p ELSE Rat(p.d - p.n, p.d)

\* entry e is the DCF of prior p at (m, f), normalized or not
IsDcfOf(e, p, m, f, nz) ==
    IF ~nz THEN e = WeightedCost(p, m, f)
    ELSE IF SmallerSide(p).n # 0
         THEN IsFin(e) /\ Mul(e, SmallerSide(p)) = WeightedCost(p, m, f)
    ELSE ~IsFin(e)

\* C1: for a sequence of priors and equal-length p_miss, p_fa, compute_dcf
\* returns a len(prior) x len(p_miss) matrix whose entry [i,j] is
\* prior[i]*p_miss[j] + (1-prior[i])*p_fa[j], divided by
\* min(prior[i], 1-prior[i]) exactly when normalize is true.
C1_DcfMatrix ==
    (Done("compute_dcf") /\ ~prior.scalar /\ Len(p_miss) = Len(p_fa)) =>
        /\ out.status = "return"
        /\ Len(out.val) = Len(prior.v)
        /\ \A i \in 1..Len(prior.v) :
            /\ Len(out.val[i]) = Len(p_miss)
            /\ \A j \in 1..Len(p_miss) :
                  IsDcfOf(out.val[i][j], prior.v[i], p_miss[j], p_fa[j], normalize)

C1_Witness ==
    /\ Done("compute_dcf")
    /\ prior = [scalar |-> FALSE, v |-> <<Rat(1, 10), Rat(1, 2)>>]
    /\ p_miss = <<Rat(0, 1), Rat(1, 2)>>
    /\ p_fa = <<Rat(1, 1), Rat(1, 2)>>
    /\ normalize
    /\ out.status = "return"
    /\ out.val[1][2] = Rat(5, 1)

\* C2 (as claimed): compute_act_dcf fails with the assertion 'priors must be
\* in ascending order' exactly when the prior sequence is not non-decreasing,
\* and a non-decreasing sequence passes the check at line 73.
C2_AscendingPrecondition ==
    (Done("compute_act_dcf") /\ ~prior.scalar /\ Len(prior.v) >= 1
       /\ \A i \in 1..Len(prior.v) : InRange(prior.v[i])) =>
        /\ (out.status = "raise" /\ out.err = "AssertionError" /\ out.line = 73)
              <=> ~NonDecreasing(prior.v)
        /\ NonDecreasing(prior.v) => ~(out.status = "raise" /\ out.line = 73)

\* C3 (as claimed): for an allowed prior sequence compute_act_dcf returns a
\* value per prior, and compute_min_dcf's value for that prior is at most it.
C3_MinLeAct ==
    (Done("compute_act_dcf") /\ ValidPriors /\ tar # <<>> /\ non # <<>>) =>
        /\ out.status = "return"
        /\ LET mn == compute_min_dcf(tar, non, prior, normalize)
           IN  /\ mn.status = "return"
               /\ Len(out.val) = Len(mn.val)
               /\ \A i \in 1..Len(mn.val) : ~Less(out.val[i], mn.val[i])

\* C4 (as claimed): fast_eval_dcf_eer returns (min_dcf, act_dcf, eer, prbep)
\* with min_dcf and act_dcf those of compute_min_dcf and compute_act_dcf under
\* the caller's normalize flag, eer from the hull and prbep from the hull
\* scaled by the population sizes.
C4_FastEvalTuple ==
    (Done("fast_eval_dcf_eer") /\ ValidPriors /\ tar # <<>> /\ non # <<>>) =>
        /\ out.status = "return"
        /\ Len(out.val) = 4
        /\ out.val[1] = compute_min_dcf(tar, non, prior, normalize).val
        /\ \E build \in NumpyBuilds :
           \E ii_tar \in ArgsortChoices(prior, tar, build) :
           \E ii_non \in ArgsortChoices(prior, non, build) :
              out.val[2] =
                 compute_act_dcf(tar, non, prior, normalize, build, ii_tar, ii_non).val
        /\ out.val[3] = rocch2eer(out.loc.p_miss, out.loc.p_fa)
        /\ out.val[4] = rocch2eer(Scaled(out.loc.p_miss, Len(tar)),
                                  Scaled(out.loc.p_fa, Len(non)))

\* the prior sequence holds a prior outside the open interval (0,1)
SomePriorOutOfRange ==
    ~prior.scalar /\ \E i \in 1..Len(prior.v) : ~InRange(prior.v[i])

C6_EmptyPopulationDefined ==
    (pc = "done" /\ fn \in {"compute_min_dcf", "fast_eval_dcf_eer"}
       /\ (tar = <<>> \/ non = <<>>) /\ tar # non /\ ValidPriors) =>
        /\ out.status = "return"
        /\ fn = "compute_min_dcf" => \A i \in 1..Len(out.val) : IsFin(out.val[i])
        /\ fn = "fast_eval_dcf_eer" => IsFin(out.val[3])

C8_Scenario ==
    /\ Done("fast_eval_dcf_eer")
    /\ tar = <<1, 2, 3, 4, 5>>
    /\ non = <<0, 1, 2, 3, 4>>

C9_ScalarPrior ==
    (Done("compute_dcf") /\ prior.scalar /\ Len(p_miss) = Len(p_fa) /\ Len(p_miss) >= 1) =>
        /\ out.status = "return"
        /\ Len(out.val) = 1
        /\ Len(out.val[1]) = Len(p_miss)
        /\ \A j \in 1..Len(p_miss) :
              IsDcfOf(out.val[1][j], prior.v[1], p_miss[j], p_fa[j], normalize)

\* number of scores strictly below, and at or above, the threshold of prior p
Below(scores, p) ==
    Cardinality({i \in DOMAIN scores : Less(AsFloat(scores[i]), Threshold(p))})

AtOrAbove(scores, p) ==
    Cardinality({i \in DOMAIN scores : ~Less(AsFloat(scores[i]), Threshold(p))})

\* C10 (as claimed): for a non-decreasing prior sequence the rank-based
\* counts of compute_act_dcf are the direct counts, n_miss[i] the targets
\* strictly below threshold i and n_fa[i] the non-targets at or above it, and
\* the function's cross-check of them (lines 97-104) passes.
C10_RankCounts ==
    (Done("compute_act_dcf") /\ ValidPriors /\ tar # <<>> /\ non # <<>>) =>
        /\ out.loc.n_miss = [i \in 1..Len(prior.v) |-> Below(tar, prior.v[i])]
        /\ out.loc.n_fa = [i \in 1..Len(prior.v) |-> AtOrAbove(non, prior.v[i])]
        /\ ~(out.status = "raise" /\ out.line \in 97..104)

====
